---- MODULE Spec2Model ----
(***************************************************************************)
(* A model of dylink: the per-symbol lazy binding slot (LazyFn), the       *)
(* library handle registries (Library, CloseableLibrary) and the function  *)
(* generated by the dylink attribute macro.                                *)
(*                                                                         *)
(*   Spec     the LazyFn slot: threads call try_link and Deref while the   *)
(*            set of loadable libraries changes under them.                *)
(*   SpecRace the same LazyFn with one more thread, enough for three       *)
(*            overlapping borrows of the status cell.                      *)
(*   SpecLib  one registry (Library or CloseableLibrary) with the slots    *)
(*            bound through it: threads construct, force, install, close.  *)
(*   SpecGen  one registry and one function generated by the macro over    *)
(*            it: threads construct, force, close and invoke.              *)
(***************************************************************************)
EXTENDS Integers, Sequences, FiniteSets

\* ------------------------------------------------------------------ bounds
NThreads == 2
NRacers == 3
MaxCalls == 3
MaxLibs == 2
MaxOpens == 2
MaxInstalls == 2
MaxInvokes == 2
NLibThreads == 2
MaxOwned == 2
\* The images dyld ever loads, and the calls of load_objects.
MaxImages == 3
MaxLoads == 2

Libs == {"a", "b"}
VkLib == "vulkan"

\* Every sequence over S of length at most n.
SeqsUpTo(S, n) == UNION {[1..k -> S] : k \in 0..n}

\* ------------------------------------------------------------------ values
\* A value of type F: the placeholder thunk, or the address a loader returned.
Thunk == [kind |-> "thunk", lib |-> "none"]
Addr(lib) == [kind |-> "sym", lib |-> lib]

\* error::DylinkError values; NoError stands for Option::None in `status`.
NoError == [variant |-> "None", msgs |-> <<>>]
LoadError(lib) == [variant |-> "LibNotLoaded", msgs |-> <<lib>>]
ListNotLoaded(msgs) == [variant |-> "ListNotLoaded", msgs |-> msgs]

\* e.to_string(): the Display text of a loader error, here the pair of the
\* variant's text and the library it names.
to_string(e) == <<"could not load", e.msgs[1]>>

\* Result<FnPtr, DylinkError>
Ok(v) == [tag |-> "Ok", fn |-> v, err |-> NoError]
Err(e) == [tag |-> "Err", fn |-> Thunk, err |-> e]
Panicked == [tag |-> "Panic", fn |-> Thunk, err |-> NoError]
NoResult == [tag |-> "None", fn |-> Thunk, err |-> NoError]

\* LinkType
Vulkan == [ty |-> "Vulkan", list |-> <<>>]
System(list) == [ty |-> "System", list |-> list]
LinkTypes == {Vulkan} \cup {System(l) : l \in SeqsUpTo(Libs, MaxLibs)}

\* ------------------------------------------------------------------ registry values
LibThreads == 1..NLibThreads
Slots == {"s1", "s2"}
Syms == {"S", "T"}

\* The symbols a library exports.
Exports(lib) == IF lib = "a" THEN {"S"} ELSE {"S", "T"}

\* Option<L>: no handle, or the handle the n-th successful open returned.
NoHandle == [lib |-> "none", gen |-> 0]
Handle(lib, n) == [lib |-> lib, gen |-> n]

\* What an atomic cell holds: its placeholder, the generated function's
\* `initializer`, or the address of a symbol looked up through a handle.
Placeholder == [kind |-> "placeholder", lib |-> "none", gen |-> 0, sym |-> "none"]
Initializer == [kind |-> "initializer", lib |-> "none", gen |-> 0, sym |-> "none"]
SymAddr(h, sym) == [kind |-> "sym", lib |-> h.lib, gen |-> h.gen, sym |-> sym]

\* The handle an address was looked up through.
HandleOf(v) == Handle(v.lib, v.gen)

\* The symbol name the generated function looks up (#link_name).
LinkName == "S"

\* No registry constructed yet.
Unconstructed == [kind |-> "none", libs |-> <<>>, hlib |-> NoHandle, log |-> <<>>]

\* Library::new: stores the slice, the handle starts as None.
LibraryNewRejectsEmpty(libs) ==
    IF libs = <<>> THEN Unconstructed
    ELSE [kind |-> "Library", libs |-> libs, hlib |-> NoHandle, log |-> <<>>]
LibraryNew(libs) ==
    [kind |-> "Library", libs |-> libs, hlib |-> NoHandle, log |-> <<>>]

\* CloseableLibrary::new: stores the slice, inner starts as (None, Vec::new()).
CloseableLibraryNew(libs) ==
    [kind |-> "CloseableLibrary", libs |-> libs, hlib |-> NoHandle, log |-> <<>>]

\* An undo log entry: (the slot, the value it held before the bind).
LogEntryPlaceholder(slot, prev) == [slot |-> slot, prev |-> Placeholder]
LogEntry(slot, prev) == [slot |-> slot, prev |-> prev]

\* What install returns: nothing yet, None on failure, or Some(previous value
\* of the slot).
NotInstalled == [tag |-> "NotCalled", prev |-> Placeholder]
InstallNone == [tag |-> "None", prev |-> Placeholder]
InstallSome(prev) == [tag |-> "Some", prev |-> prev]

VARIABLES
    link_ty,      \* LazyFn.link_ty
    present,      \* the libraries that the loaders can resolve the symbol from now
    once,         \* LazyFn.once: "incomplete", "running", "complete"
    status,       \* LazyFn.status: NoError or the terminal error
    borrowFlag,   \* the borrow counter inside the RefCell of status
    addr_ptr,     \* LazyFn.addr_ptr: "thunk" (points at the thunk) or "cell" (points at addr)
    addr,         \* LazyFn.addr
    errors,       \* the closure's `errors` vector
    idx,          \* how many candidates find_map has consumed
    maybe,        \* the closure's `maybe`
    pc,           \* each thread's position in try_link_with
    bflag,        \* each thread's register holding the borrow counter it read
    outcome,      \* each thread's value of the final match, before it returns
    sync,         \* whether each thread has been through call_once yet
    started,      \* how many calls of try_link_with have started
    returned,     \* the distinct values that calls have returned or ended with
    lateStart,    \* some call started after another call had returned
    bodyRuns,     \* how often the closure given to call_once ran
    loaderCalls,  \* how many loader calls were made
    lastDeref,    \* what the last Deref::deref observed
    reg,          \* the registry: kind, libs, the handle and the undo log under its mutex
    ctor,         \* the constructor call that was made, if any
    slots,        \* the atomic cells that install binds
    FUNC,         \* the static FUNC of the generated function
    opens,        \* how many times a backend open has succeeded
    closed,       \* the handles that backend close has released
    forceRet,     \* what the last force returned
    closeRet,     \* what the last close returned
    installRet,   \* what the last install returned
    installs,     \* how many install calls were made
    binds,        \* how many installs have succeeded into each slot
    fpc,          \* each thread's position in the generated function
    gsym,         \* each thread's `symbol` inside initializer
    lookups,      \* how many times initializer called LibLock::symbol
    invokes,      \* how many invocations of the generated function started
    called,       \* the pointers the generated function has called through
    crafted,      \* the fields an image header was built from
    image,        \* the bytes of the image header given to hdr_size
    hdrRet,       \* what hdr_size returned
    mtx,          \* the registry's Mutex: 0 when free, else the thread that holds it
    lpc,          \* each thread's position inside force or install
    lop,          \* the call each thread is in: force, or install of a symbol into a slot
    lh,           \* each thread's result of force_unchecked, before it is stored
    dlLock,       \* the Mutex behind dylib_guard: 0 when free, else its holder
    dlerr,        \* the loader's error state, the one dlerror reads and clears
    dpc,          \* each thread's position inside InnerLibrary::open or symbol
    dres,         \* each thread's result of the native call it made
    symRet,       \* what each thread's last InnerLibrary::symbol returned
    owned,        \* how many InnerLibrary values each thread owns
    unguarded,    \* the native loader calls that were made without the lock held
    images,       \* dyld's image list, in index order (macOS)
    nextImage,    \* the next image dyld will load
    IMAGE_COUNT,  \* get_image_count's static counter
    START,        \* get_image_count's static Once
    registered,   \* how many times the add/remove callbacks were registered
    loads,        \* how many calls of load_objects were made
    ipc,          \* the position of the thread inside load_objects
    image_index,  \* the counter value fetch_update handed to the closure
    data,         \* load_objects' vector
    li,           \* the closure's loop index
    path,         \* the name the closure read for the current index
    dirty,        \* the counter was written since fetch_update last read it
    loRet,        \* what the last load_objects returned
    commit        \* the image list and `dirty` at the moment fetch_update succeeded

\* The threads that share the LazyFn.
Threads == DOMAIN pc

lazyVars == <<link_ty, once, status, borrowFlag, addr_ptr, addr, errors,
              idx, maybe, pc, bflag, outcome, sync, started, returned,
              lateStart, bodyRuns,
              loaderCalls, lastDeref>>

regVars == <<reg, ctor, slots, opens, closed, forceRet, closeRet, installRet,
            installs, binds>>

genVars == <<FUNC, fpc, gsym, lookups, invokes, called>>

hdrVars == <<crafted, image, hdrRet>>

\* The variables of the parts beside LazyFn, the registries and the
\* generated function.
lockVars == <<mtx, lpc, lop, lh>>

dlVars == <<dlLock, dlerr, dpc, dres, symRet, owned, unguarded>>

imgVars == <<images, nextImage, IMAGE_COUNT, START, registered, loads, ipc,
            image_index, data, li, path, dirty, loRet, commit>>

extVars == <<hdrVars, lockVars, dlVars, imgVars>>

vars == <<lazyVars, present, regVars, genVars, extVars>>

\* ------------------------------------------------------------------ loaders
\* loader::general_loader::<L>(lib, fn_name)
general_loader(lib) == IF lib \in present THEN Ok(Addr(lib)) ELSE Err(LoadError(lib))

\* loader::vulkan_loader(fn_name)
vulkan_loader == IF VkLib \in present THEN Ok(Addr(VkLib)) ELSE Err(LoadError(VkLib))

\* ------------------------------------------------------------------ LazyFn
\* sync::Once::call_once: what a caller does in each state of the Once.
OnceRunsAlways(o) == IF o = "running" THEN "wait" ELSE "run"
OnceNeverWaits(o) == IF o = "incomplete" THEN "run" ELSE "skip"
OnceAction(o) ==
    CASE o = "incomplete" -> "run"
      [] o = "running" -> "wait"
      [] o = "complete" -> "skip"

\* match self.link_ty: the arm of the closure a LinkType selects.
ArmAlwaysSystem(lt) == "System"
Arm(lt) == lt.ty

\* match maybe: the result takes the Ok arm.
MatchOkAlways(m) == TRUE
MatchOk(m) == m.tag = "Ok"

\* find_map stops at the first candidate whose result is Some.
FindMapNeverStops(r) == FALSE
FindMapStop(r) == r.tag = "Ok"

\* errors.push(e)
PushFront(es, e) == <<e>> \o es
PushError(es, e) == Append(es, e)

\* The Vec<String> built from `errors` in ok_or_else.
ErrStrings(es) == [i \in 1..Len(es) |-> to_string(es[i])]

\* LazyFn::load: the reference read from addr_ptr, dereferenced.
Load(p, a) == IF p = "cell" THEN a ELSE Thunk

\* A thread has synchronised with the closure's writes once it has been
\* through call_once (it ran the closure, or call_once returned to it).
Synced(t) == sync[t]

\* The libraries a LinkType can ask a loader for.
Candidates(lt) ==
    IF lt.ty = "Vulkan" THEN {VkLib} ELSE {lt.list[i] : i \in 1..Len(lt.list)}

\* The registry side at rest: nothing constructed, nothing bound.
LibIdle ==
    /\ reg = Unconstructed
    /\ ctor = [called |-> FALSE, kind |-> "none", libs |-> <<>>]
    /\ slots = [s \in Slots |-> Placeholder]
    /\ FUNC = Initializer
    /\ opens = 0
    /\ closed = {}
    /\ forceRet = "none"
    /\ closeRet = "none"
    /\ installRet = NotInstalled
    /\ installs = 0
    /\ binds = [s \in Slots |-> 0]
    /\ fpc = [t \in LibThreads |-> "idle"]
    /\ gsym = [t \in LibThreads |-> Placeholder]
    /\ lookups = 0
    /\ invokes = 0
    /\ called = {}

\* No image header has been looked at.
NoCraft == [magic |-> <<>>, class |-> 0, ehsize32 |-> 0, ehsize64 |-> 0, sizeofcmds |-> 0]
NoHdrResult == [tag |-> "None", size |-> 0, kind |-> "none"]
HdrIdle ==
    /\ crafted = NoCraft
    /\ image = <<>>
    /\ hdrRet = NoHdrResult

\* No thread is inside a force or install call.
NoOp == [op |-> "none", slot |-> "none", sym |-> "none"]
LockIdle ==
    /\ mtx = 0
    /\ lpc = [t \in LibThreads |-> "idle"]
    /\ lop = [t \in LibThreads |-> NoOp]
    /\ lh = [t \in LibThreads |-> NoHandle]

\* No thread is inside the loader backend and the loader has no error pending.
NoDlError == [by |-> 0, call |-> "none"]
DlError(t, call) == [by |-> t, call |-> call]
NoSymResult == [tag |-> "None", from |-> NoDlError]
DlIdle ==
    /\ dlLock = 0
    /\ dlerr = NoDlError
    /\ dpc = [t \in LibThreads |-> "idle"]
    /\ dres = [t \in LibThreads |-> "none"]
    /\ symRet = [t \in LibThreads |-> NoSymResult]
    /\ owned = [t \in LibThreads |-> 0]
    /\ unguarded = {}

\* The parts beside LazyFn, the registries and the generated function, at rest.
\* load_objects was never called, get_image_count's statics are as declared
\* and dyld holds the images l.
NoList == <<[name |-> -1, base |-> -1]>>
NoCommit == [images |-> <<>>, dirty |-> FALSE]
ImgStart(l) ==
    /\ images = l
    /\ nextImage = Len(l) + 1
    /\ IMAGE_COUNT = 0
    /\ START = "incomplete"
    /\ registered = 0
    /\ loads = 0
    /\ ipc = "idle"
    /\ image_index = 0
    /\ data = <<>>
    /\ li = 0
    /\ path = 0
    /\ dirty = FALSE
    /\ loRet = NoList
    /\ commit = NoCommit
ImgIdle == ImgStart(<<>>)

ExtIdle == HdrIdle /\ LockIdle /\ DlIdle /\ ImgIdle

\* LazyFn::new: a fresh slot shared by n threads, none of them inside
\* try_link_with.
LazyNew(n) ==
    /\ once = "incomplete"
    /\ status = NoError
    /\ borrowFlag = 0
    /\ addr_ptr = "thunk"
    /\ addr = Thunk
    /\ errors = <<>>
    /\ idx = 0
    /\ maybe = NoResult
    /\ pc = [t \in 1..n |-> "idle"]
    /\ bflag = [t \in 1..n |-> 0]
    /\ outcome = [t \in 1..n |-> NoResult]
    /\ sync = [t \in 1..n |-> FALSE]
    /\ started = 0
    /\ returned = {}
    /\ lateStart = FALSE
    /\ bodyRuns = 0
    /\ loaderCalls = 0
    /\ lastDeref = [ptr |-> "none", fn |-> Thunk]

\* The LazyFn side at rest.
LazyIdle ==
    /\ link_ty = Vulkan
    /\ LazyNew(NThreads)

Init ==
    /\ link_ty \in LinkTypes
    /\ present \in SUBSET Candidates(link_ty)
    /\ LazyNew(NThreads)
    /\ LibIdle
    /\ ExtIdle

InitRace ==
    /\ link_ty \in LinkTypes
    /\ present \in SUBSET Candidates(link_ty)
    /\ LazyNew(NRacers)
    /\ LibIdle
    /\ ExtIdle

\* try_link_with: self.once.call_once(...). A caller that finds the Once
\* running blocks; one that finds it complete goes on to read status.
CallOnce(t) ==
    /\ pc[t] = "idle"
    /\ started < MaxCalls
    /\ OnceAction(once) # "wait"
    /\ started' = started + 1
    /\ sync' = [sync EXCEPT ![t] = TRUE]
    /\ lateStart' = (lateStart \/ returned # {})
    /\ IF OnceAction(once) = "run"
       THEN /\ once' = "running"
            /\ bodyRuns' = bodyRuns + 1
            /\ errors' = <<>>
            /\ idx' = 0
            /\ pc' = [pc EXCEPT ![t] = "body"]
       ELSE /\ pc' = [pc EXCEPT ![t] = "borrow"]
            /\ UNCHANGED <<once, bodyRuns, errors, idx>>
    /\ UNCHANGED <<link_ty, present, status, borrowFlag, addr_ptr, addr, maybe,
                   bflag, outcome, returned, loaderCalls, lastDeref,
                   regVars, genVars, extVars>>

\* The closure, LinkType::Vulkan arm.
BodyVulkan(t) ==
    /\ pc[t] = "body"
    /\ Arm(link_ty) = "Vulkan"
    /\ maybe' = vulkan_loader
    /\ loaderCalls' = loaderCalls + 1
    /\ pc' = [pc EXCEPT ![t] = "store"]
    /\ UNCHANGED <<link_ty, present, once, status, borrowFlag, addr_ptr, addr,
                   errors, idx, bflag, outcome, sync, started, returned, lateStart, bodyRuns, lastDeref,
                   regVars, genVars, extVars>>

\* The closure, LinkType::System arm: one step of find_map over lib_list.
BodySystemNext(t) ==
    /\ pc[t] = "body"
    /\ Arm(link_ty) = "System"
    /\ idx < Len(link_ty.list)
    /\ LET r == general_loader(link_ty.list[idx + 1]) IN
        /\ idx' = idx + 1
        /\ loaderCalls' = loaderCalls + 1
        /\ IF FindMapStop(r)
           THEN /\ maybe' = r
                /\ pc' = [pc EXCEPT ![t] = "store"]
                /\ UNCHANGED errors
           ELSE /\ errors' = IF r.tag = "Err" THEN PushError(errors, r.err) ELSE errors
                /\ UNCHANGED <<maybe, pc>>
    /\ UNCHANGED <<link_ty, present, once, status, borrowFlag, addr_ptr, addr,
                   bflag, outcome, sync, started, returned, lateStart, bodyRuns, lastDeref,
                   regVars, genVars, extVars>>

\* The closure, LinkType::System arm: find_map returned None, ok_or_else
\* builds ListNotLoaded from the collected errors.
BodySystemNone(t) ==
    /\ pc[t] = "body"
    /\ Arm(link_ty) = "System"
    /\ idx = Len(link_ty.list)
    /\ maybe' = Err(ListNotLoaded(ErrStrings(errors)))
    /\ pc' = [pc EXCEPT ![t] = "store"]
    /\ UNCHANGED <<link_ty, present, once, status, borrowFlag, addr_ptr, addr,
                   errors, idx, bflag, outcome, sync, started, returned, lateStart, bodyRuns,
                   loaderCalls, lastDeref,
                   regVars, genVars, extVars>>

\* The closure, match maybe: Ok sets the addr cell; Err replaces status (a
\* borrow_mut, which panics unless the borrow counter is 0) and the closure
\* returns, completing the Once.
BodyMatch(t) ==
    /\ pc[t] = "store"
    /\ IF MatchOk(maybe)
       THEN /\ addr' = maybe.fn
            /\ pc' = [pc EXCEPT ![t] = "publish"]
            /\ UNCHANGED <<status, once, returned>>
       ELSE IF borrowFlag = 0
       THEN /\ status' = maybe.err
            /\ once' = "complete"
            /\ pc' = [pc EXCEPT ![t] = "borrow"]
            /\ UNCHANGED <<addr, returned>>
       ELSE /\ pc' = [pc EXCEPT ![t] = "panicked"]
            /\ returned' = returned \cup {Panicked}
            /\ UNCHANGED <<addr, status, once>>
    /\ UNCHANGED <<link_ty, present, borrowFlag, addr_ptr, errors, idx, maybe,
                   bflag, outcome, sync, started, lateStart, bodyRuns,
                   loaderCalls, lastDeref,
                   regVars, genVars, extVars>>

\* The closure, Ok arm: addr_ptr.store(addr.as_ptr(), Release); the closure
\* returns, completing the Once.
BodyPublish(t) ==
    /\ pc[t] = "publish"
    /\ addr_ptr' = "cell"
    /\ once' = "complete"
    /\ pc' = [pc EXCEPT ![t] = "borrow"]
    /\ UNCHANGED <<link_ty, present, status, borrowFlag, addr, errors, idx, maybe,
                   bflag, outcome, sync, started, returned, lateStart, bodyRuns, loaderCalls, lastDeref,
                   regVars, genVars, extVars>>

\* self.status.borrow(), first half: BorrowRef::new reads the counter. The
\* counter is a plain Cell<isize> and LazyFn is declared Sync, so the read
\* and the write that follows are separate unsynchronised accesses.
BorrowRead(t) ==
    /\ pc[t] = "borrow"
    /\ bflag' = [bflag EXCEPT ![t] = borrowFlag]
    /\ pc' = [pc EXCEPT ![t] = "borrowed"]
    /\ UNCHANGED <<link_ty, present, once, status, borrowFlag, addr_ptr, addr,
                   errors, idx, maybe, outcome, sync, started, returned, lateStart, bodyRuns,
                   loaderCalls, lastDeref,
                   regVars, genVars, extVars>>

\* self.status.borrow(), second half: a counter that would not be positive
\* after the increment means "already mutably borrowed" and panics; otherwise
\* the counter is written, status is cloned and the match arm is evaluated
\* (the Ref lives to the end of the match).
BorrowWrite(t) ==
    /\ pc[t] = "borrowed"
    /\ IF bflag[t] + 1 <= 0
       THEN /\ pc' = [pc EXCEPT ![t] = "panicked"]
            /\ returned' = returned \cup {Panicked}
            /\ UNCHANGED <<borrowFlag, outcome>>
       ELSE /\ borrowFlag' = bflag[t] + 1
            /\ outcome' = [outcome EXCEPT ![t] =
                               IF status = NoError
                               THEN Ok(Load(addr_ptr, addr))
                               ELSE Err(status)]
            /\ pc' = [pc EXCEPT ![t] = "drop"]
            /\ UNCHANGED returned
    /\ bflag' = [bflag EXCEPT ![t] = 0]
    /\ UNCHANGED <<link_ty, present, once, status, addr_ptr, addr, errors, idx,
                   maybe, sync, started, lateStart, bodyRuns, loaderCalls,
                   lastDeref,
                   regVars, genVars, extVars>>

\* Drop of the Ref, first half: BorrowRef::drop reads the counter.
DropRead(t) ==
    /\ pc[t] = "drop"
    /\ bflag' = [bflag EXCEPT ![t] = borrowFlag]
    /\ pc' = [pc EXCEPT ![t] = "dropped"]
    /\ UNCHANGED <<link_ty, present, once, status, borrowFlag, addr_ptr, addr,
                   errors, idx, maybe, outcome, sync, started, returned, lateStart, bodyRuns,
                   loaderCalls, lastDeref,
                   regVars, genVars, extVars>>

\* Drop of the Ref, second half: the counter is written back one lower, and
\* try_link_with returns.
DropWrite(t) ==
    /\ pc[t] = "dropped"
    /\ borrowFlag' = bflag[t] - 1
    /\ bflag' = [bflag EXCEPT ![t] = 0]
    /\ outcome' = [outcome EXCEPT ![t] = NoResult]
    /\ returned' = returned \cup {outcome[t]}
    /\ pc' = [pc EXCEPT ![t] = "idle"]
    /\ UNCHANGED <<link_ty, present, once, status, addr_ptr, addr, errors, idx,
                   maybe, sync, started, lateStart, bodyRuns,
                   loaderCalls, lastDeref,
                   regVars, genVars, extVars>>

\* Deref::deref: load(Relaxed) of addr_ptr, then a read through the reference.
\* A relaxed load orders nothing: a thread that has not synchronised with the
\* closure may still see the old pointer, and when it sees the new pointer
\* its read of the addr cell races with addr.set and may see either value.
DerefThenLink(t) ==
    /\ pc[t] = "idle"
    /\ once = "incomplete"
    /\ lastDeref' = [ptr |-> addr_ptr, fn |-> Load(addr_ptr, addr)]
    /\ once' = "running"
    /\ bodyRuns' = bodyRuns + 1
    /\ pc' = [pc EXCEPT ![t] = "body"]
    /\ UNCHANGED <<link_ty, present, status, borrowFlag, addr_ptr, addr,
                   errors, idx, maybe, bflag, outcome, sync, started, returned, lateStart,
                   loaderCalls,
                   regVars, genVars, extVars>>
Deref(t) ==
    /\ pc[t] = "idle"
    /\ \E p \in (IF Synced(t) THEN {addr_ptr} ELSE {"thunk", addr_ptr}) :
       \E v \in (IF Synced(t) THEN {addr} ELSE {Thunk, addr}) :
           lastDeref' = [ptr |-> p, fn |-> Load(p, v)]
    /\ UNCHANGED <<link_ty, present, once, status, borrowFlag, addr_ptr, addr,
                   errors, idx, maybe, pc, bflag, outcome, sync, started, returned, lateStart,
                   bodyRuns, loaderCalls,
                   regVars, genVars, extVars>>

\* The environment: a library becomes loadable, or stops being loadable.
EnvChange ==
    /\ \E l \in Candidates(link_ty) :
           present' = IF l \in present THEN present \ {l} ELSE present \cup {l}
    /\ UNCHANGED <<link_ty, once, status, borrowFlag, addr_ptr, addr, errors, idx,
                   maybe, pc, bflag, outcome, sync, started, returned, lateStart, bodyRuns,
                   loaderCalls, lastDeref,
                   regVars, genVars, extVars>>

Next ==
    \/ \E t \in Threads : CallOnce(t)
    \/ \E t \in Threads : BodyVulkan(t)
    \/ \E t \in Threads : BodySystemNext(t)
    \/ \E t \in Threads : BodySystemNone(t)
    \/ \E t \in Threads : BodyMatch(t)
    \/ \E t \in Threads : BodyPublish(t)
    \/ \E t \in Threads : BorrowRead(t)
    \/ \E t \in Threads : BorrowWrite(t)
    \/ \E t \in Threads : DropRead(t)
    \/ \E t \in Threads : DropWrite(t)
    \/ \E t \in Threads : Deref(t)
    \/ EnvChange

Spec == Init /\ [][Next]_vars

SpecRace == InitRace /\ [][Next]_vars

\* The steps a thread takes inside try_link_with once it is in the call.
InCall(t) ==
    \/ BodyVulkan(t)
    \/ BodySystemNext(t)
    \/ BodySystemNone(t)
    \/ BodyMatch(t)
    \/ BodyPublish(t)
    \/ BorrowRead(t)
    \/ BorrowWrite(t)
    \/ DropRead(t)
    \/ DropWrite(t)

\* Fair scheduling: a thread inside try_link_with that can take its next
\* step eventually takes it (the loader calls terminate).
SpecLive == Init /\ [][Next]_vars /\ \A t \in 1..NThreads : WF_vars(InCall(t))

\* ------------------------------------------------------------------ registries
\* guard::force_unchecked(libs): open the candidates in order until one opens.
FirstOpenable(libs) ==
    LET ok == {i \in 1..Len(libs) : libs[i] \in present} IN
    IF ok = {} THEN 0 ELSE CHOOSE i \in ok : \A j \in ok : i <= j
force_unchecked(libs) ==
    IF FirstOpenable(libs) = 0 THEN NoHandle
    ELSE Handle(libs[FirstOpenable(libs)], opens + 1)

\* `if let None = handle { handle = force_unchecked(libs) }`, under the lock.
ForcedNever(r) == r.hlib
ForcedAlwaysReopens(r) == force_unchecked(r.libs)
Forced(r) == IF r.hlib = NoHandle THEN force_unchecked(r.libs) ELSE r.hlib

\* A step that may open a library stays within the bound on opens.
MayOpen == reg.hlib # NoHandle \/ opens < MaxOpens

\* close replays the undo log in recorded order, storing each entry's
\* previous value into its slot.
RECURSIVE Replay(_, _)
ReplayNothing(sl, log) == sl
Replay(sl, log) ==
    IF log = <<>> THEN sl
    ELSE Replay([sl EXCEPT ![Head(log).slot] = Head(log).prev], Tail(log))

InitLib ==
    /\ LazyIdle
    /\ LibIdle
    /\ ExtIdle
    /\ present \in SUBSET Libs

\* Library::new / CloseableLibrary::new with any slice, the empty one included.
New(k, libs) ==
    /\ ~ctor.called
    /\ ctor' = [called |-> TRUE, kind |-> k, libs |-> libs]
    /\ reg' = IF k = "Library" THEN LibraryNew(libs) ELSE CloseableLibraryNew(libs)
    /\ UNCHANGED <<slots, opens, closed, forceRet, closeRet, installRet, installs, binds>>
    /\ UNCHANGED <<lazyVars, present, genVars, extVars>>

\* Library::force / CloseableLibrary::force: under the lock, open if no
\* handle is cached; return whether a handle is cached now.
Force(t) ==
    /\ reg.kind # "none"
    /\ fpc[t] = "idle"
    /\ MayOpen
    /\ LET h == Forced(reg) IN
        /\ reg' = [reg EXCEPT !.hlib = h]
        /\ opens' = IF reg.hlib = NoHandle /\ h # NoHandle THEN opens + 1 ELSE opens
        /\ forceRet' = IF h # NoHandle THEN "true" ELSE "false"
    /\ UNCHANGED <<ctor, slots, closed, closeRet, installRet, installs, binds>>
    /\ UNCHANGED <<lazyVars, present, genVars, extVars>>

\* install (find_and_swap on the guard): under the lock, open if no handle is
\* cached, look the symbol up, swap it into the slot and, for a
\* CloseableLibrary, push (slot, previous value) on the undo log.
Install(t, s, sym) ==
    /\ reg.kind # "none"
    /\ fpc[t] = "idle"
    /\ MayOpen
    /\ installs < MaxInstalls
    /\ installs' = installs + 1
    /\ LET h == Forced(reg) IN
        /\ opens' = IF reg.hlib = NoHandle /\ h # NoHandle THEN opens + 1 ELSE opens
        /\ IF h # NoHandle /\ sym \in Exports(h.lib)
           THEN /\ slots' = [slots EXCEPT ![s] = SymAddr(h, sym)]
                /\ installRet' = InstallSome(slots[s])
                /\ binds' = [binds EXCEPT ![s] = @ + 1]
                /\ reg' = [reg EXCEPT !.hlib = h,
                                      !.log = IF reg.kind = "CloseableLibrary"
                                              THEN Append(@, LogEntry(s, slots[s]))
                                              ELSE @]
           ELSE /\ reg' = [reg EXCEPT !.hlib = h]
                /\ installRet' = InstallNone
                /\ UNCHANGED <<slots, binds>>
    /\ UNCHANGED <<ctor, closed, forceRet, closeRet>>
    /\ UNCHANGED <<lazyVars, present, genVars, extVars>>

\* close's result: a distinct error when there is no handle to take.
CloseAlwaysOk(r) == "ok"
CloseResult(r) == IF r.hlib = NoHandle THEN "err" ELSE "ok"

\* CloseableLibrary::close: under the lock, take the handle; with none, fail;
\* otherwise replay and discard the undo log, then release the handle.
Close(t) ==
    /\ reg.kind = "CloseableLibrary"
    /\ fpc[t] = "idle"
    /\ closeRet' = CloseResult(reg)
    /\ IF reg.hlib = NoHandle
       THEN /\ UNCHANGED <<reg, slots, closed>>
       ELSE /\ slots' = Replay(slots, reg.log)
            /\ reg' = [reg EXCEPT !.hlib = NoHandle, !.log = <<>>]
            /\ closed' = closed \cup {reg.hlib}
    /\ UNCHANGED <<ctor, opens, forceRet, installRet, installs, binds>>
    /\ UNCHANGED <<lazyVars, present, genVars, extVars>>

\* ------------------------------------------------------------------ generated function
\* The generated function: FUNC.load(Relaxed) and the call through what was
\* loaded. Loading a resolved address calls it; loading `initializer` enters
\* the trampoline.
GenLoad(t) ==
    /\ reg.kind # "none"
    /\ fpc[t] = "idle"
    /\ invokes < MaxInvokes
    /\ invokes' = invokes + 1
    /\ IF FUNC = Initializer
       THEN /\ fpc' = [fpc EXCEPT ![t] = "init"]
            /\ UNCHANGED called
       ELSE /\ called' = called \cup {FUNC}
            /\ UNCHANGED fpc
    /\ UNCHANGED <<FUNC, gsym, lookups>>
    /\ UNCHANGED <<lazyVars, present, regVars, extVars>>

\* initializer: LibLock::symbol(&library, link_name).expect(..). The lookup
\* runs under the registry's lock and opens the library if no handle is
\* cached; a failed lookup panics.
GenInitSymbol(t) ==
    /\ fpc[t] = "init"
    /\ MayOpen
    /\ lookups' = lookups + 1
    /\ LET h == Forced(reg) IN
        /\ reg' = [reg EXCEPT !.hlib = h]
        /\ opens' = IF reg.hlib = NoHandle /\ h # NoHandle THEN opens + 1 ELSE opens
        /\ IF h # NoHandle /\ LinkName \in Exports(h.lib)
           THEN /\ gsym' = [gsym EXCEPT ![t] = SymAddr(h, LinkName)]
                /\ fpc' = [fpc EXCEPT ![t] = "store"]
           ELSE /\ fpc' = [fpc EXCEPT ![t] = "panicked"]
                /\ UNCHANGED gsym
    /\ UNCHANGED <<ctor, slots, closed, forceRet, closeRet, installRet, installs, binds>>
    /\ UNCHANGED <<FUNC, invokes, called>>
    /\ UNCHANGED <<lazyVars, present, extVars>>

\* initializer: FUNC.store(symbol, Relaxed), then the call through symbol.
GenInitStore(t) ==
    /\ fpc[t] = "store"
    /\ FUNC' = gsym[t]
    /\ called' = called \cup {gsym[t]}
    /\ gsym' = [gsym EXCEPT ![t] = Placeholder]
    /\ fpc' = [fpc EXCEPT ![t] = "idle"]
    /\ UNCHANGED <<lookups, invokes>>
    /\ UNCHANGED <<lazyVars, present, regVars, extVars>>

\* The environment: a library file appears or disappears.
LibEnvChange ==
    /\ \E l \in Libs :
           present' = IF l \in present THEN present \ {l} ELSE present \cup {l}
    /\ UNCHANGED <<lazyVars, regVars, genVars, extVars>>

NextLib ==
    \/ \E k \in {"Library", "CloseableLibrary"}, libs \in SeqsUpTo(Libs, MaxLibs) :
           New(k, libs)
    \/ \E t \in LibThreads : Force(t)
    \/ \E t \in LibThreads, s \in Slots, sym \in Syms : Install(t, s, sym)
    \/ \E t \in LibThreads : Close(t)
    \/ LibEnvChange

SpecLib == InitLib /\ [][NextLib]_vars

NextGen ==
    \/ \E k \in {"Library", "CloseableLibrary"}, libs \in SeqsUpTo(Libs, MaxLibs) :
           New(k, libs)
    \/ \E t \in LibThreads : Force(t)
    \/ \E t \in LibThreads : Close(t)
    \/ \E t \in LibThreads : GenLoad(t)
    \/ \E t \in LibThreads : GenInitSymbol(t)
    \/ \E t \in LibThreads : GenInitStore(t)
    \/ LibEnvChange

SpecGen == InitLib /\ [][NextGen]_vars

\* ------------------------------------------------------------------ the registry's mutex
\* The calls that take the registry's lock for an open+lookup sequence:
\* force, and the installs of either symbol into one slot (which slot it is
\* makes no difference to the lock or to the open).
ForceOp == [op |-> "force", slot |-> "none", sym |-> "none"]
InstallOp(s, sym) == [op |-> "install", slot |-> s, sym |-> sym]
LockOps == {ForceOp} \cup {InstallOp("s1", sym) : sym \in Syms}

\* Mutex::lock returns only when no thread holds the mutex.
LockAlwaysFree(m) == TRUE
LockFree(m) == m = 0

\* Where a call goes on once the handle has been dealt with.
AfterOpen(o) == IF o.op = "force" THEN "ret" ELSE "swap"

\* this.lock().unwrap()
LockAcquire(t, o) ==
    /\ reg.kind # "none"
    /\ lpc[t] = "idle"
    /\ LockFree(mtx)
    /\ MayOpen
    /\ o.op = "install" => installs < MaxInstalls
    /\ installs' = IF o.op = "install" THEN installs + 1 ELSE installs
    /\ mtx' = t
    /\ lpc' = [lpc EXCEPT ![t] = "locked"]
    /\ lop' = [lop EXCEPT ![t] = o]
    /\ UNCHANGED <<reg, ctor, slots, opens, closed, forceRet, closeRet, installRet, binds>>
    /\ UNCHANGED lh
    /\ UNCHANGED <<lazyVars, present, genVars, hdrVars, dlVars, imgVars>>

\* `if let None = *lock.guard`, and the call of guard::force_unchecked: the
\* backend opens the first candidate that opens.
LockedOpen(t) ==
    /\ lpc[t] = "locked"
    /\ IF reg.hlib = NoHandle
       THEN /\ lh' = [lh EXCEPT ![t] = force_unchecked(reg.libs)]
            /\ opens' = IF force_unchecked(reg.libs) # NoHandle THEN opens + 1 ELSE opens
            /\ lpc' = [lpc EXCEPT ![t] = "store"]
       ELSE /\ lpc' = [lpc EXCEPT ![t] = AfterOpen(lop[t])]
            /\ UNCHANGED <<lh, opens>>
    /\ UNCHANGED <<reg, ctor, slots, closed, forceRet, closeRet, installRet, installs, binds>>
    /\ UNCHANGED <<mtx, lop>>
    /\ UNCHANGED <<lazyVars, present, genVars, hdrVars, dlVars, imgVars>>

\* `*lock.guard = ...`: what force_unchecked returned is stored as the handle.
LockedStore(t) ==
    /\ lpc[t] = "store"
    /\ reg' = [reg EXCEPT !.hlib = lh[t]]
    /\ lh' = [lh EXCEPT ![t] = NoHandle]
    /\ lpc' = [lpc EXCEPT ![t] = AfterOpen(lop[t])]
    /\ UNCHANGED <<ctor, slots, opens, closed, forceRet, closeRet, installRet, installs, binds>>
    /\ UNCHANGED <<mtx, lop>>
    /\ UNCHANGED <<lazyVars, present, genVars, hdrVars, dlVars, imgVars>>

\* install, after the open: look the symbol up through the handle, swap it
\* into the slot and, for a CloseableLibrary, push the undo log entry.
LockedSwap(t) ==
    /\ lpc[t] = "swap"
    /\ LET s == lop[t].slot
           sym == lop[t].sym IN
       IF reg.hlib # NoHandle /\ sym \in Exports(reg.hlib.lib)
       THEN /\ slots' = [slots EXCEPT ![s] = SymAddr(reg.hlib, sym)]
            /\ installRet' = InstallSome(slots[s])
            /\ binds' = [binds EXCEPT ![s] = @ + 1]
            /\ reg' = [reg EXCEPT !.log = IF reg.kind = "CloseableLibrary"
                                          THEN Append(@, LogEntry(s, slots[s]))
                                          ELSE @]
       ELSE /\ installRet' = InstallNone
            /\ UNCHANGED <<slots, binds, reg>>
    /\ lpc' = [lpc EXCEPT ![t] = "ret"]
    /\ UNCHANGED <<ctor, opens, closed, forceRet, closeRet, installs>>
    /\ UNCHANGED <<mtx, lop, lh>>
    /\ UNCHANGED <<lazyVars, present, genVars, hdrVars, dlVars, imgVars>>

\* The return: force returns lock.guard.is_some(); the guard is dropped and
\* the mutex unlocked.
Unlock(t) ==
    /\ lpc[t] = "ret"
    /\ forceRet' = IF lop[t].op = "force"
                   THEN (IF reg.hlib # NoHandle THEN "true" ELSE "false")
                   ELSE forceRet
    /\ mtx' = 0
    /\ lpc' = [lpc EXCEPT ![t] = "idle"]
    /\ lop' = [lop EXCEPT ![t] = NoOp]
    /\ UNCHANGED <<reg, ctor, slots, opens, closed, closeRet, installRet, installs, binds>>
    /\ UNCHANGED lh
    /\ UNCHANGED <<lazyVars, present, genVars, hdrVars, dlVars, imgVars>>

\* close, which takes the same lock for its whole body.
LockedClose(t) ==
    /\ lpc[t] = "idle"
    /\ LockFree(mtx)
    /\ Close(t)

NextLock ==
    \/ \E k \in {"Library", "CloseableLibrary"}, libs \in SeqsUpTo(Libs, MaxLibs) :
           New(k, libs)
    \/ \E t \in LibThreads, o \in LockOps : LockAcquire(t, o)
    \/ \E t \in LibThreads : LockedOpen(t)
    \/ \E t \in LibThreads : LockedStore(t)
    \/ \E t \in LibThreads : LockedSwap(t)
    \/ \E t \in LibThreads : Unlock(t)
    \/ \E t \in LibThreads : LockedClose(t)
    \/ LibEnvChange

SpecLock == InitLib /\ [][NextLock]_vars

\* ------------------------------------------------------------------ the POSIX backend
\* InnerLibrary on a platform where dylib_guard is a real mutex: the loader
\* keeps one error state for the process, set by a failing dlopen, dlsym or
\* dlclose and read and cleared by dlerror.

\* io::Result of InnerLibrary::symbol; an Err carries what dlerror returned.
SymOk == [tag |-> "Ok", from |-> NoDlError]
SymErr(e) == [tag |-> "Err", from |-> e]

\* LOCK.lock() in dylib_guard returns only when no thread holds the mutex.
DlLockFree(m) == m = 0

\* The native call a thread makes outside the lock, if it is outside.
Unguarded(t, call) == IF dlLock = t THEN {} ELSE {call}

\* InnerLibrary::open / this: let _lock = dylib_guard().
DlOpenLock(t) ==
    /\ dpc[t] = "idle"
    /\ owned[t] < MaxOwned
    /\ DlLockFree(dlLock)
    /\ dlLock' = t
    /\ dpc' = [dpc EXCEPT ![t] = "open"]
    /\ UNCHANGED <<dlerr, dres, symRet, owned, unguarded>>
    /\ UNCHANGED <<lazyVars, present, regVars, genVars, hdrVars, lockVars, imgVars>>

\* InnerLibrary::open / this: c::dlopen, which returns a handle or returns
\* null and sets the error state.
DlOpenCall(t) ==
    /\ dpc[t] = "open"
    /\ \E r \in {"ok", "fail"} :
          /\ dres' = [dres EXCEPT ![t] = r]
          /\ dlerr' = IF r = "fail" THEN DlError(t, "dlopen") ELSE dlerr
    /\ unguarded' = unguarded \cup Unguarded(t, "dlopen")
    /\ dpc' = [dpc EXCEPT ![t] = "opened"]
    /\ UNCHANGED <<dlLock, symRet, owned>>
    /\ UNCHANGED <<lazyVars, present, regVars, genVars, hdrVars, lockVars, imgVars>>

\* InnerLibrary::open / this: Ok(Self(ret)), or c_dlerror().unwrap() and
\* Err; the guard is dropped on return.
DlOpenRet(t) ==
    /\ dpc[t] = "opened"
    /\ IF dres[t] = "ok"
       THEN /\ owned' = [owned EXCEPT ![t] = @ + 1]
            /\ UNCHANGED dlerr
       ELSE /\ dlerr' = NoDlError
            /\ UNCHANGED owned
    /\ unguarded' = unguarded \cup
                       (IF dres[t] = "ok" THEN {} ELSE Unguarded(t, "dlerror"))
    /\ dres' = [dres EXCEPT ![t] = "none"]
    /\ dlLock' = 0
    /\ dpc' = [dpc EXCEPT ![t] = "idle"]
    /\ UNCHANGED symRet
    /\ UNCHANGED <<lazyVars, present, regVars, genVars, hdrVars, lockVars, imgVars>>

\* InnerLibrary::symbol: let _lock = dylib_guard().
SymLock(t) ==
    /\ dpc[t] = "idle"
    /\ owned[t] > 0
    /\ DlLockFree(dlLock)
    /\ dlLock' = t
    /\ dpc' = [dpc EXCEPT ![t] = "sym_clear"]
    /\ UNCHANGED <<dlerr, dres, symRet, owned, unguarded>>
    /\ UNCHANGED <<lazyVars, present, regVars, genVars, hdrVars, lockVars, imgVars>>

\* InnerLibrary::symbol: let _ = c_dlerror(), which clears the error state.
SymClear(t) ==
    /\ dpc[t] = "sym_clear"
    /\ dlerr' = NoDlError
    /\ unguarded' = unguarded \cup Unguarded(t, "dlerror")
    /\ dpc' = [dpc EXCEPT ![t] = "sym_call"]
    /\ UNCHANGED <<dlLock, dres, symRet, owned>>
    /\ UNCHANGED <<lazyVars, present, regVars, genVars, hdrVars, lockVars, imgVars>>

\* InnerLibrary::symbol: self.raw_symbol(&c_str), that is c::dlsym, which
\* finds the symbol or sets the error state.
SymCall(t) ==
    /\ dpc[t] = "sym_call"
    /\ \E r \in {"ok", "fail"} :
          /\ dres' = [dres EXCEPT ![t] = r]
          /\ dlerr' = IF r = "fail" THEN DlError(t, "dlsym") ELSE dlerr
    /\ unguarded' = unguarded \cup Unguarded(t, "dlsym")
    /\ dpc' = [dpc EXCEPT ![t] = "sym_check"]
    /\ UNCHANGED <<dlLock, symRet, owned>>
    /\ UNCHANGED <<lazyVars, present, regVars, genVars, hdrVars, lockVars, imgVars>>

\* InnerLibrary::symbol: `if let Some(err) = c_dlerror()` returns Err(err),
\* otherwise Ok(handle); the guard is dropped on return.
SymCheck(t) ==
    /\ dpc[t] = "sym_check"
    /\ symRet' = [symRet EXCEPT ![t] = IF dlerr # NoDlError THEN SymErr(dlerr) ELSE SymOk]
    /\ dlerr' = NoDlError
    /\ unguarded' = unguarded \cup Unguarded(t, "dlerror")
    /\ dres' = [dres EXCEPT ![t] = "none"]
    /\ dlLock' = 0
    /\ dpc' = [dpc EXCEPT ![t] = "idle"]
    /\ UNCHANGED owned
    /\ UNCHANGED <<lazyVars, present, regVars, genVars, hdrVars, lockVars, imgVars>>

\* Drop for InnerLibrary: c::dlclose(self.0.as_ptr()), without dylib_guard.
DlDrop(t) ==
    /\ dpc[t] = "idle"
    /\ owned[t] > 0
    /\ owned' = [owned EXCEPT ![t] = @ - 1]
    /\ \E r \in {"ok", "fail"} :
          dlerr' = IF r = "fail" THEN DlError(t, "dlclose") ELSE dlerr
    /\ unguarded' = unguarded \cup Unguarded(t, "dlclose")
    /\ UNCHANGED <<dlLock, dpc, dres, symRet>>
    /\ UNCHANGED <<lazyVars, present, regVars, genVars, hdrVars, lockVars, imgVars>>

\* InnerLibrary::from_ptr: c::dladdr, then c::dlopen(filename, ..) without
\* dylib_guard; a null handle gives None and leaves the error state set.
FromPtr(t) ==
    /\ dpc[t] = "idle"
    /\ owned[t] < MaxOwned
    /\ \E r \in {"ok", "fail"} :
          /\ owned' = IF r = "ok" THEN [owned EXCEPT ![t] = @ + 1] ELSE owned
          /\ dlerr' = IF r = "fail" THEN DlError(t, "dlopen") ELSE dlerr
    /\ unguarded' = unguarded \cup Unguarded(t, "dlopen")
    /\ UNCHANGED <<dlLock, dpc, dres, symRet>>
    /\ UNCHANGED <<lazyVars, present, regVars, genVars, hdrVars, lockVars, imgVars>>

InitDl ==
    /\ LazyIdle
    /\ LibIdle
    /\ present = {}
    /\ HdrIdle
    /\ LockIdle
    /\ DlIdle
    /\ ImgIdle

NextDl ==
    \/ \E t \in LibThreads : DlOpenLock(t)
    \/ \E t \in LibThreads : DlOpenCall(t)
    \/ \E t \in LibThreads : DlOpenRet(t)
    \/ \E t \in LibThreads : SymLock(t)
    \/ \E t \in LibThreads : SymClear(t)
    \/ \E t \in LibThreads : SymCall(t)
    \/ \E t \in LibThreads : SymCheck(t)
    \/ \E t \in LibThreads : DlDrop(t)
    \/ \E t \in LibThreads : FromPtr(t)

SpecDl == InitDl /\ [][NextDl]_vars

\* ------------------------------------------------------------------ hdr_size
\* The magic numbers hdr_size matches, as the bytes found in memory.
MH_MAGIC == <<206, 250, 237, 254>>
MH_MAGIC_64 == <<207, 250, 237, 254>>
ELF_MAGIC == <<127, 69, 76, 70>>
magic_len == 4

\* c::ELFCLASS32, c::ELFCLASS64 and the layouts of c::Elf32_Ehdr,
\* c::Elf64_Ehdr, c::mach_header and c::mach_header_64: the offset of
\* e_ehsize, the offset of sizeofcmds and the sizes of the Mach-O headers.
ELFCLASS32 == 1
ELFCLASS64 == 2
Elf32_e_ehsize == 40
Elf64_e_ehsize == 52
Mach_sizeofcmds == 20
SizeofMachHeader == 28
SizeofMachHeader64 == 32
SizeofElf64Ehdr == 64

\* io::Result<usize>
HdrOk(n) == [tag |-> "Ok", size |-> n, kind |-> "none"]
HdrErr(k) == [tag |-> "Err", size |-> 0, kind |-> k]

\* The byte at an offset of the image, and the little-endian integer fields
\* read through the header structs.
ByteAt(img, off) == img[off + 1]
U16At(img, off) == ByteAt(img, off) + 256 * ByteAt(img, off + 1)
U32At(img, off) == U16At(img, off) + 65536 * U16At(img, off + 2)

\* match *data.offset(4): which arm the class byte selects.
ClassArmGuesses64(c) == IF c = ELFCLASS32 THEN "Elf32" ELSE "Elf64"
ClassArm(c) ==
    CASE c = ELFCLASS32 -> "Elf32"
      [] c = ELFCLASS64 -> "Elf64"
      [] OTHER -> "invalid"

\* os::unix::hdr_size
hdr_size(img) ==
    LET magic == SubSeq(img, 1, magic_len) IN
    CASE magic = MH_MAGIC -> HdrOk(SizeofMachHeader + U32At(img, Mach_sizeofcmds))
      [] magic = MH_MAGIC_64 -> HdrOk(SizeofMachHeader64 + U32At(img, Mach_sizeofcmds))
      [] magic = ELF_MAGIC ->
            CASE ClassArm(ByteAt(img, 4)) = "Elf32" -> HdrOk(U16At(img, Elf32_e_ehsize))
              [] ClassArm(ByteAt(img, 4)) = "Elf64" -> HdrOk(U16At(img, Elf64_e_ehsize))
              [] OTHER -> HdrErr("InvalidData")
      [] OTHER -> HdrErr("Other")

\* The images hdr_size is tried on: a leading magic, a class byte, the two
\* e_ehsize fields and sizeofcmds, written to memory as a linker writes them.
Magics == {MH_MAGIC, MH_MAGIC_64, ELF_MAGIC, <<127, 69, 76, 71>>, <<77, 90, 144, 0>>,
           <<0, 0, 0, 0>>, <<254, 237, 250, 206>>}
Classes == {0, 1, 2, 3}
EhSizes == {0, 1, 52, 64, 255, 256, 65535}
CmdSizes == {0, 300, 70000}
Crafts == [magic : Magics, class : Classes, ehsize32 : EhSizes, ehsize64 : EhSizes,
           sizeofcmds : CmdSizes]

\* Byte k (from 0) of the little-endian encoding of n.
LeByte(n, k) == (n \div (256 ^ k)) % 256
WriteImage(c) ==
    [i \in 1..SizeofElf64Ehdr |->
        LET off == i - 1 IN
        CASE off < magic_len -> c.magic[i]
          [] off = 4 -> c.class
          [] off \in Mach_sizeofcmds..(Mach_sizeofcmds + 3) /\ c.magic # ELF_MAGIC ->
                LeByte(c.sizeofcmds, off - Mach_sizeofcmds)
          [] off \in Elf32_e_ehsize..(Elf32_e_ehsize + 1) /\ c.magic = ELF_MAGIC ->
                LeByte(c.ehsize32, off - Elf32_e_ehsize)
          [] off \in Elf64_e_ehsize..(Elf64_e_ehsize + 1) /\ c.magic = ELF_MAGIC ->
                LeByte(c.ehsize64, off - Elf64_e_ehsize)
          [] OTHER -> 0]

InitHdr ==
    /\ LazyIdle
    /\ LibIdle
    /\ present = {}
    /\ crafted \in Crafts
    /\ image = WriteImage(crafted)
    /\ hdrRet = NoHdrResult
    /\ LockIdle
    /\ DlIdle
    /\ ImgIdle

\* One call of hdr_size on the image.
HdrSize ==
    /\ hdrRet = NoHdrResult
    /\ hdrRet' = hdr_size(image)
    /\ UNCHANGED <<crafted, image>>
    /\ UNCHANGED <<lazyVars, present, regVars, genVars, lockVars, dlVars, imgVars>>

NextHdr == HdrSize

SpecHdr == InitHdr /\ [][NextHdr]_vars

\* ------------------------------------------------------------------ load_objects (macOS)
\* The weak::Weak pushed for an image: the name and the header dyld returned.
\* Image n has name n and header n; 0 is what dyld returns for an index
\* that is out of range (a null pointer).
Weak(name, base) == [name |-> name, base |-> base]

\* _dyld_get_image_name(i) and _dyld_get_image_header(i), i counted from 0.
dyld_get_image_name(i) == IF i < Len(images) THEN images[i + 1] ELSE 0
dyld_get_image_header(i) == IF i < Len(images) THEN images[i + 1] ELSE 0

\* The list without its k-th element.
RemoveAt(l, k) == [n \in 1..(Len(l) - 1) |-> IF n < k THEN l[n] ELSE l[n + 1]]

\* The thread is between fetch_update's read of the counter and its
\* compare-exchange.
InPass == ipc \in {"clear", "name", "header", "cas"}

InitImg ==
    /\ LazyIdle
    /\ LibIdle
    /\ present = {}
    /\ HdrIdle
    /\ LockIdle
    /\ DlIdle
    /\ \E l \in {<<>>, <<1>>, <<1, 2>>} : ImgStart(l)

\* load_objects is called: let mut data = Vec::new().
LoadObjects ==
    /\ ipc = "idle"
    /\ loads < MaxLoads
    /\ loads' = loads + 1
    /\ data' = <<>>
    /\ ipc' = "count"
    /\ UNCHANGED <<images, nextImage, IMAGE_COUNT, START, registered, image_index,
                   li, path, dirty, loRet, commit>>
    /\ UNCHANGED <<lazyVars, present, regVars, genVars, hdrVars, lockVars, dlVars>>

\* get_image_count: START.call_once registers the two callbacks; dyld calls
\* the add callback at once for every image already loaded.
GetImageCount ==
    /\ ipc = "count"
    /\ IF START = "incomplete"
       THEN /\ registered' = registered + 1
            /\ IMAGE_COUNT' = IMAGE_COUNT + Len(images)
            /\ START' = "complete"
       ELSE UNCHANGED <<registered, IMAGE_COUNT, START>>
    /\ ipc' = "load"
    /\ UNCHANGED <<images, nextImage, loads, image_index, data, li, path, dirty,
                   loRet, commit>>
    /\ UNCHANGED <<lazyVars, present, regVars, genVars, hdrVars, lockVars, dlVars>>

\* fetch_update: the first load of the counter.
FetchLoad ==
    /\ ipc = "load"
    /\ image_index' = IMAGE_COUNT
    /\ dirty' = FALSE
    /\ ipc' = "clear"
    /\ UNCHANGED <<images, nextImage, IMAGE_COUNT, START, registered, loads, data,
                   li, path, loRet, commit>>
    /\ UNCHANGED <<lazyVars, present, regVars, genVars, hdrVars, lockVars, dlVars>>

\* The closure starts: data.clear(), and the loop over 0..image_index.
PassClear ==
    /\ ipc = "clear"
    /\ data' = <<>>
    /\ li' = 0
    /\ ipc' = IF image_index = 0 THEN "cas" ELSE "name"
    /\ UNCHANGED <<images, nextImage, IMAGE_COUNT, START, registered, loads,
                   image_index, path, dirty, loRet, commit>>
    /\ UNCHANGED <<lazyVars, present, regVars, genVars, hdrVars, lockVars, dlVars>>

\* CStr::from_ptr(_dyld_get_image_name(i)): for an index out of range dyld
\* returns null and from_ptr reads through it, which is undefined: the
\* process dies, or some bytes are taken for a name.
PassName ==
    /\ ipc = "name"
    /\ IF dyld_get_image_name(li) # 0
       THEN /\ path' = dyld_get_image_name(li)
            /\ ipc' = "header"
       ELSE \/ /\ ipc' = "crashed"
               /\ UNCHANGED path
            \/ /\ path' = 0
               /\ ipc' = "header"
    /\ UNCHANGED <<images, nextImage, IMAGE_COUNT, START, registered, loads,
                   image_index, data, li, dirty, loRet, commit>>
    /\ UNCHANGED <<lazyVars, present, regVars, genVars, hdrVars, lockVars, dlVars>>

\* _dyld_get_image_header(i) and data.push(weak_ptr).
PassHeader ==
    /\ ipc = "header"
    /\ data' = Append(data, Weak(path, dyld_get_image_header(li)))
    /\ li' = li + 1
    /\ ipc' = IF li + 1 < image_index THEN "name" ELSE "cas"
    /\ UNCHANGED <<images, nextImage, IMAGE_COUNT, START, registered, loads,
                   image_index, path, dirty, loRet, commit>>
    /\ UNCHANGED <<lazyVars, present, regVars, genVars, hdrVars, lockVars, dlVars>>

\* fetch_update: compare_exchange_weak(prev, Some(image_index)). It succeeds
\* when the counter holds the value the pass started from, and load_objects
\* returns Ok(data); otherwise (the value differs, or the weak exchange
\* failed spuriously) the closure runs again on the value now read.
PassCas ==
    /\ ipc = "cas"
    /\ \E spurious \in BOOLEAN :
           IF IMAGE_COUNT = image_index /\ ~spurious
           THEN /\ loRet' = data
                /\ commit' = [images |-> images, dirty |-> dirty]
                /\ ipc' = "idle"
                /\ UNCHANGED <<image_index, dirty>>
           ELSE /\ image_index' = IMAGE_COUNT
                /\ dirty' = FALSE
                /\ ipc' = "clear"
                /\ UNCHANGED <<loRet, commit>>
    /\ UNCHANGED <<images, nextImage, IMAGE_COUNT, START, registered, loads, data,
                   li, path>>
    /\ UNCHANGED <<lazyVars, present, regVars, genVars, hdrVars, lockVars, dlVars>>

\* Another thread loads an image: dyld appends it to its list and calls
\* increment_count if it is registered.
AddImage ==
    /\ nextImage <= MaxImages
    /\ images' = Append(images, nextImage)
    /\ nextImage' = nextImage + 1
    /\ IF registered > 0
       THEN /\ IMAGE_COUNT' = IMAGE_COUNT + 1
            /\ dirty' = (dirty \/ InPass)
       ELSE UNCHANGED <<IMAGE_COUNT, dirty>>
    /\ UNCHANGED <<START, registered, loads, ipc, image_index, data, li, path,
                   loRet, commit>>
    /\ UNCHANGED <<lazyVars, present, regVars, genVars, hdrVars, lockVars, dlVars>>

\* Another thread unloads the k-th image: dyld takes it off its list, the
\* images behind it move one index down, and decrement_count is called if
\* it is registered.
RemoveImage(k) ==
    /\ k \in 1..Len(images)
    /\ images' = RemoveAt(images, k)
    /\ IF registered > 0
       THEN /\ IMAGE_COUNT' = IMAGE_COUNT - 1
            /\ dirty' = (dirty \/ InPass)
       ELSE UNCHANGED <<IMAGE_COUNT, dirty>>
    /\ UNCHANGED <<nextImage, START, registered, loads, ipc, image_index, data,
                   li, path, loRet, commit>>
    /\ UNCHANGED <<lazyVars, present, regVars, genVars, hdrVars, lockVars, dlVars>>

NextImg ==
    \/ LoadObjects
    \/ GetImageCount
    \/ FetchLoad
    \/ PassClear
    \/ PassName
    \/ PassHeader
    \/ PassCas
    \/ AddImage
    \/ \E k \in 1..MaxImages : RemoveImage(k)

SpecImg == InitImg /\ [][NextImg]_vars

\* ------------------------------------------------------------------ claims on registries

\* The indices of the undo log entries that name slot s.
EntriesOf(log, s) == {i \in 1..Len(log) : log[i].slot = s}

\* C2: under any interleaving of first invocations of a generated function
\* whose lookup succeeds, initializer's symbol lookup runs exactly once.
C2_OneLookupPerSymbol ==
    (\A t \in LibThreads : fpc[t] # "panicked") =>
        /\ lookups <= 1
        /\ FUNC # Initializer => lookups = 1

C8_CloseResetRoundTrip ==
    [][ /\ Len(reg'.log) = Len(reg.log) + 1 =>
             LET e == reg'.log[Len(reg'.log)] IN
             /\ e.prev = slots[e.slot]
             /\ slots'[e.slot].kind = "sym"
             /\ reg'.hlib # NoHandle
             /\ reg'.hlib \notin closed'
             /\ HandleOf(slots'[e.slot]) = reg'.hlib
        /\ (reg.hlib # NoHandle /\ reg'.hlib = NoHandle) =>
             \A s \in Slots :
                 (\E i \in EntriesOf(reg.log, s) :
                      /\ EntriesOf(reg.log, s) = {i}
                      /\ reg.log[i].prev = Placeholder)
                 => slots'[s] = Placeholder
      ]_vars

\* C8 witness: symbol S was bound into s1 twice, the second time through the
\* second handle and over the placeholder that a close in between restored.
C8_Witness ==
    /\ reg.kind = "CloseableLibrary"
    /\ binds["s1"] = 2
    /\ closed # {}
    /\ reg.hlib.gen = 2
    /\ reg.log = <<LogEntry("s1", Placeholder)>>
    /\ slots["s1"] = SymAddr(reg.hlib, "S")

\* C9, for the slot of a generated function: after close has returned, FUNC
\* does not hold an address that was looked up through the closed handle.
C9_NoSlotFromClosedHandle ==
    FUNC.kind = "sym" => HandleOf(FUNC) \notin closed

\* A step in which a force or an install call ran on the registry.
ForceOrInstallStep ==
    \/ forceRet' # forceRet
    \/ opens' # opens
    \/ installs' # installs

\* C11: a failed open is not cached. While the handle is absent a force or
\* install call that finds no candidate to open leaves the registry exactly
\* as it was (no negative state is recorded), and a later force or install
\* call tries the list again: when a candidate opens by then, the handle
\* becomes that of the first such candidate. force returns false only when
\* no candidate opens.
C11_FailedOpenNotCached ==
    [][ (reg.kind # "none" /\ reg.hlib = NoHandle /\ ForceOrInstallStep) =>
            /\ FirstOpenable(reg.libs) = 0 => reg' = reg
            /\ FirstOpenable(reg.libs) # 0 =>
                  /\ reg'.hlib # NoHandle
                  /\ reg'.hlib.lib = reg.libs[FirstOpenable(reg.libs)]
                  /\ reg'.hlib.lib \in present
            /\ forceRet' # forceRet =>
                  (forceRet' = "false" <=> FirstOpenable(reg.libs) = 0)
      ]_vars

\* C11 witness: on a Library a force returned false, and a later install
\* opened the library and bound through it.
C11_Witness ==
    /\ reg.kind = "Library"
    /\ forceRet = "false"
    /\ reg.hlib # NoHandle
    /\ \E s \in Slots : slots[s].kind = "sym"

\* C12: in a Library a cached handle is never replaced, re-opened or
\* released: the handle goes from absent to present at most once and then
\* keeps its value, at most one backend open ever succeeds, and force returns
\* true exactly when the handle is present after the call.
C12_LibraryHandleCachedForever ==
    [][ reg.kind = "Library" =>
            /\ reg.hlib # NoHandle => reg'.hlib = reg.hlib
            /\ reg'.hlib # NoHandle => (opens' = 1 /\ reg'.hlib = Handle(reg'.hlib.lib, 1))
            /\ reg'.hlib = NoHandle => opens' = 0
            /\ closed' = {}
            /\ forceRet' # forceRet => (forceRet' = "true" <=> reg'.hlib # NoHandle)
      ]_vars

\* C12 witness: a Library holds its handle, force has returned true, and two
\* installs ran through the same handle.
C12_Witness ==
    /\ reg.kind = "Library"
    /\ reg.hlib # NoHandle
    /\ forceRet = "true"
    /\ installs = 2
    /\ opens = 1

\* C13: close on a CloseableLibrary without an open handle returns the
\* error and changes nothing: handle, undo log and slots stay as they are and
\* no handle is released; close returns the error in no other case.
C13_CloseWithoutHandle ==
    [][ /\ (reg.kind = "CloseableLibrary" /\ reg.hlib = NoHandle /\ closeRet' # closeRet) =>
             /\ closeRet' = "err"
             /\ reg' = reg
             /\ slots' = slots
             /\ closed' = closed
             /\ opens' = opens
        /\ (closeRet' # closeRet /\ closeRet' = "err") => reg.hlib = NoHandle
        /\ (closeRet' # closeRet /\ closeRet' = "ok") =>
             (reg.hlib # NoHandle /\ reg.hlib \in closed')
      ]_vars

\* C13 witness: a close succeeded and a second close on the closed registry
\* returned the error, with a slot bound before the first close.
C13_Witness ==
    /\ reg.kind = "CloseableLibrary"
    /\ closeRet = "err"
    /\ closed # {}
    /\ reg.hlib = NoHandle
    /\ binds["s1"] >= 1
    /\ slots["s1"] = Placeholder

\* C17: a close that takes the handle leaves the registry unopened with an
\* empty undo log, and every slot the log names at the value it held before
\* its first bind of this open period; no slot the log names is left holding
\* an address looked up through the handle that was released.
C17_CloseRestoresEverySlot ==
    [][ (reg.kind = "CloseableLibrary" /\ reg.hlib # NoHandle /\ reg'.hlib = NoHandle) =>
            /\ reg'.log = <<>>
            /\ reg.hlib \in closed'
            /\ \A s \in Slots : EntriesOf(reg.log, s) # {} =>
                  LET first == CHOOSE i \in EntriesOf(reg.log, s) :
                                   \A j \in EntriesOf(reg.log, s) : i <= j IN
                  /\ slots'[s] = reg.log[first].prev
                  /\ ~(slots'[s].kind = "sym" /\ HandleOf(slots'[s]) = reg.hlib)
      ]_vars

\* C18: in a CloseableLibrary every successful install appends exactly one
\* entry, (the slot, the previous value that install returned), at the end
\* of the log of the current open period and changes only that slot; a
\* failed install returns None, appends nothing and changes no slot; apart
\* from install only a close that takes the handle changes the log, by
\* emptying it; the log is empty while no handle is open; a successful
\* install into a slot that holds its placeholder returns the placeholder.
C18_OneLogEntryPerInstall ==
    [][ /\ installs' # installs =>
             IF installRet'.tag = "Some"
             THEN \E s \in Slots :
                    /\ slots'[s].kind = "sym"
                    /\ reg'.hlib # NoHandle
                    /\ HandleOf(slots'[s]) = reg'.hlib
                    /\ installRet'.prev = slots[s]
                    /\ slots[s] = Placeholder => installRet' = InstallSome(Placeholder)
                    /\ \A u \in Slots \ {s} : slots'[u] = slots[u]
                    /\ reg.kind = "CloseableLibrary" =>
                          reg'.log = Append(reg.log, [slot |-> s, prev |-> installRet'.prev])
             ELSE /\ installRet' = InstallNone
                  /\ slots' = slots
                  /\ reg'.log = reg.log
        /\ (installs' = installs /\ reg'.log # reg.log) =>
             (reg.hlib # NoHandle /\ reg'.hlib = NoHandle /\ reg'.log = <<>>)
        /\ reg'.hlib = NoHandle => reg'.log = <<>>
        /\ reg'.kind = "Library" => reg'.log = <<>>
      ]_vars

\* C18 witness: two installs into s1 in one open period, the first returned
\* the placeholder and the second the address the first had bound, and the
\* log holds both entries in that order.
C18_Witness ==
    /\ reg.kind = "CloseableLibrary"
    /\ Len(reg.log) = 2
    /\ reg.log[1] = [slot |-> "s1", prev |-> Placeholder]
    /\ reg.log[2].slot = "s1"
    /\ reg.log[2].prev.kind = "sym"
    /\ installRet = InstallSome(reg.log[2].prev)

\* C19: force and install calls on one registry serialise on its mutex: at
\* most one thread is between lock and unlock, and it is the holder; every
\* handle the backend has opened is the cached one, the one the holder is
\* about to store, or one that close has released, so no handle is opened
\* twice in an open period, overwritten or leaked; a Library opens at most
\* once.
C19_OpenSerialisedOncePerPeriod ==
    /\ Cardinality({t \in LibThreads : lpc[t] # "idle"}) <= 1
    /\ \A t \in LibThreads : lpc[t] # "idle" => mtx = t
    /\ opens - Cardinality(closed) =
          (IF reg.hlib # NoHandle THEN 1 ELSE 0)
          + Cardinality({t \in LibThreads : lh[t] # NoHandle})
    /\ opens <= Cardinality(closed) + 1
    /\ reg.kind = "Library" => opens <= 1

\* C19 witness: in the second open period of a CloseableLibrary a thread
\* holds the lock with the handle it has just opened, not stored yet, while
\* the other threads are outside.
C19_Witness ==
    /\ reg.kind = "CloseableLibrary"
    /\ closed # {}
    /\ \E t \in LibThreads :
          /\ lpc[t] = "store"
          /\ lh[t].gen = 2
          /\ lop[t].op = "install"
          /\ \A u \in LibThreads \ {t} : lpc[u] = "idle"

\* ------------------------------------------------------------------ claims on the POSIX backend

\* C20: where dylib_guard is a real mutex, every native loader call that
\* sets or reads the loader's error state (dlopen, dlsym, dlclose, dlerror)
\* is made by the thread that holds the lock, and an error that
\* InnerLibrary::symbol returns is the one its own dlsym call set.
C20_LoaderCallsUnderLock ==
    /\ unguarded = {}
    /\ \A t \in LibThreads :
          symRet[t].tag = "Err" => symRet[t].from = DlError(t, "dlsym")

\* ------------------------------------------------------------------ claims on hdr_size

\* C15: on an image that starts with the ELF magic and has class ELF32 or
\* ELF64, hdr_size returns Ok with exactly the value written in the e_ehsize
\* field of the header of that class; with the ELF magic and any other class
\* byte, or with leading bytes that are no magic it knows, it returns an
\* error.
C15_HdrSizeIsEhsize ==
    hdrRet # NoHdrResult =>
        /\ (crafted.magic = ELF_MAGIC /\ crafted.class = ELFCLASS64) =>
               hdrRet = HdrOk(crafted.ehsize64)
        /\ (crafted.magic = ELF_MAGIC /\ crafted.class = ELFCLASS32) =>
               hdrRet = HdrOk(crafted.ehsize32)
        /\ (crafted.magic = ELF_MAGIC /\ crafted.class \notin {ELFCLASS32, ELFCLASS64}) =>
               hdrRet.tag = "Err"
        /\ crafted.magic \notin {ELF_MAGIC, MH_MAGIC, MH_MAGIC_64} =>
               hdrRet.tag = "Err"

\* C15 witness: an ELF64 header whose e_ehsize is 64, next to an ELF32 field
\* holding another value, gave 64.
C15_Witness ==
    /\ crafted.magic = ELF_MAGIC
    /\ crafted.class = ELFCLASS64
    /\ crafted.ehsize64 = 64
    /\ crafted.ehsize32 = 52
    /\ hdrRet = HdrOk(64)

\* ------------------------------------------------------------------ claims on LazyFn

\* C1: N threads that call try_link_with concurrently on a fresh LazyFn run
\* the closure under the Once exactly once in total, and all of them return
\* the identical outcome (all Ok with the same address, or all Err with the
\* same error). The calls are concurrent as long as none of them started
\* after another had returned.
C1_ExactlyOnceSameOutcome ==
    /\ bodyRuns <= 1
    /\ returned # {} => bodyRuns = 1
    /\ ~lateStart =>
          /\ Cardinality(returned) <= 1
          /\ \A o \in returned : o.tag \in {"Ok", "Err"}

\* C3: once a first call of try_link has returned, no later step makes a
\* loader call.
C3_NoLoaderCallAfterFirstReturn ==
    [][returned # {} => loaderCalls' = loaderCalls]_vars

\* C3 witness: after a resolution that called a loader, a call that started
\* after another had returned has itself returned.
C3_Witness ==
    /\ once = "complete"
    /\ loaderCalls >= 1
    /\ lateStart
    /\ started >= 2
    /\ \A t \in Threads : pc[t] = "idle"

\* C4: once the resolution has failed, every call of try_link returns Err
\* with the stored error, never Ok and never anything else.
C4_TerminalErrorReturnedToAll ==
    status # NoError => \A o \in returned : o = Err(status)

\* C5: for LinkType::System the resolution succeeds exactly when a candidate
\* yields the symbol; the address installed is that of the first candidate
\* that yielded, every candidate before it was tried and failed, none after
\* it was tried, and the failures before it are not surfaced.
C5_FirstCandidateWins ==
    (once = "complete" /\ link_ty.ty = "System") =>
        LET list == link_ty.list IN
        /\ idx <= Len(list)
        /\ \A i \in 1..Len(errors) : errors[i] = LoadError(list[i])
        /\ IF status = NoError
           THEN /\ idx >= 1
                /\ Len(errors) = idx - 1
                /\ addr = Addr(list[idx])
                /\ addr_ptr = "cell"
                /\ \A o \in returned : o.tag # "Panic" => o = Ok(Addr(list[idx]))
           ELSE /\ idx = Len(list)
                /\ Len(errors) = Len(list)
                /\ addr = Thunk
                /\ addr_ptr = "thunk"

\* C5 witness: the list [missing, present] resolved through its second
\* candidate and a call returned Ok with that address.
C5_Witness ==
    /\ once = "complete"
    /\ link_ty = System(<<"a", "b">>)
    /\ status = NoError
    /\ Len(errors) = 1
    /\ Ok(Addr("b")) \in returned

\* C6: when every candidate of a LinkType::System list fails, the terminal
\* error is ListNotLoaded with one message per candidate, in list order.
C6_ListNotLoadedInOrder ==
    (once = "complete" /\ link_ty.ty = "System" /\ status # NoError) =>
        status = ListNotLoaded([i \in 1..Len(link_ty.list) |->
                                   to_string(LoadError(link_ty.list[i]))])

\* C6 witness: both candidates of a two-library list failed.
C6_Witness ==
    /\ once = "complete"
    /\ link_ty = System(<<"a", "b">>)
    /\ status.variant = "ListNotLoaded"
    /\ Len(status.msgs) = 2

\* C14: on resolution failure the generated function panics without having
\* obtained an address to call through, while try_link returns the typed
\* error as Err: no call of try_link panics or returns anything else.
C14_FailurePanicsOrReturnsErr ==
    /\ \A t \in LibThreads : fpc[t] = "panicked" => gsym[t] = Placeholder
    /\ status # NoError =>
          /\ \A t \in Threads : pc[t] # "panicked"
          /\ \A o \in returned : o.tag = "Err"

\* C16: no call of try_link returns, or gets past call_once, while the
\* resolution is in progress: until the Once is complete only the thread
\* that runs the closure is inside try_link_with and nothing has been
\* returned; every Ok that is returned carries the address the loader
\* produced, which is the one in the addr cell, never the thunk.
C16_NoReturnBeforeResolved ==
    /\ once # "complete" =>
          /\ returned = {}
          /\ \A t \in Threads : pc[t] \in {"idle", "body", "store", "publish"}
          /\ Cardinality({t \in Threads : pc[t] # "idle"}) <= 1
    /\ \A o \in returned : o.tag = "Ok" =>
          /\ o.fn.kind = "sym"
          /\ o.fn = addr
          /\ addr_ptr = "cell"
          /\ o.fn.lib \in Candidates(link_ty)

\* C16 witness: two calls that overlapped (neither started after the other
\* had returned) have both returned, with Ok and the loader's address.
C16_Witness ==
    /\ once = "complete"
    /\ ~lateStart
    /\ started >= 2
    /\ \A t \in Threads : pc[t] = "idle"
    /\ returned = {Ok(addr)}
    /\ addr.kind = "sym"

\* C10: a thread that sees the slot as resolved, through Deref or through
\* the value try_link returns, also sees the resolved function in the cell.
C10_ResolvedSlotShowsResolvedFn ==
    /\ lastDeref.ptr = "cell" => lastDeref.fn = addr /\ lastDeref.fn.kind = "sym"
    /\ \A o \in returned : o.tag = "Ok" => o.fn.kind = "sym"

\* C21: a LazyFn with LinkType::Vulkan resolves through the Vulkan loader
\* only. find_map never hands a candidate to the system loader (idx counts
\* them, errors collects their failures), the loader is called at most once
\* per run of the closure, a failure is the Vulkan loader's own error and
\* never ListNotLoaded, and a resolved address is the Vulkan loader's.
C21_VulkanOnlyVulkanLoader ==
    link_ty.ty = "Vulkan" =>
        /\ idx = 0
        /\ errors = <<>>
        /\ loaderCalls <= bodyRuns
        /\ maybe \in {NoResult, Ok(Addr(VkLib)), Err(LoadError(VkLib))}
        /\ status \in {NoError, LoadError(VkLib)}
        /\ status.variant # "ListNotLoaded"
        /\ addr \in {Thunk, Addr(VkLib)}
        /\ \A r \in returned : r.tag = "Err" => r.err.variant # "ListNotLoaded"

\* A Vulkan slot whose resolution failed and whose caller got the Vulkan
\* loader's error back.
C21_Witness ==
    /\ link_ty.ty = "Vulkan"
    /\ once = "complete"
    /\ loaderCalls = 1
    /\ status = LoadError(VkLib)
    /\ Err(LoadError(VkLib)) \in returned

C24_StatusIffBodyFailed ==
    /\ (status # NoError) <=> (once = "complete" /\ maybe.tag = "Err")
    /\ status # NoError =>
           /\ status = maybe.err
           /\ addr_ptr = "thunk"
           /\ addr = Thunk
    /\ (once = "complete" /\ maybe.tag = "Ok") =>
           /\ status = NoError
           /\ addr_ptr = "cell"
           /\ addr = maybe.fn
           /\ addr.kind = "sym"

\* The body completed with a failure: status holds the error, the slot and
\* the cell still hold the placeholder, and a caller got the error.
C24_Witness ==
    /\ once = "complete"
    /\ maybe.tag = "Err"
    /\ status = maybe.err
    /\ addr_ptr = "thunk"
    /\ addr = Thunk
    /\ Err(status) \in returned

\* C25: in the generated call path a failed lookup in `initializer` leaves
\* FUNC equal to `initializer`, so after a failed lookup every invocation
\* runs `initializer` (and with it the lookup) again; once FUNC holds a
\* resolved address it keeps holding one, and an invocation that starts
\* then calls through FUNC and does not run `initializer`.
C25_FailedLookupNotCached ==
    [][/\ \A t \in LibThreads :
              (fpc[t] = "init" /\ fpc'[t] = "panicked") => FUNC' = Initializer
       /\ ((\E t \in LibThreads : fpc[t] = "panicked") /\ invokes' # invokes) =>
              \E t \in LibThreads : fpc[t] = "idle" /\ fpc'[t] = "init"
       /\ FUNC # Initializer =>
              /\ FUNC'.kind = "sym"
              /\ invokes' # invokes => (fpc' = fpc /\ FUNC \in called')]_vars

\* ------------------------------------------------------------------ claims on load_objects
\* C22: on macOS the list load_objects returns is one consistent snapshot:
\* it has exactly one entry per image index, the entry of index i being the
\* image dyld holds at index i at the moment the enumeration commits; a pass
\* during which the counter was changed is never the one that commits; and
\* the callbacks are registered exactly once (once get_image_count has run).
C22_LoadObjectsOneSnapshot ==
    /\ registered <= 1
    /\ START = "complete" => registered = 1
    /\ loRet # NoList =>
           /\ Len(loRet) = Len(commit.images)
           /\ \A k \in 1..Len(loRet) :
                  loRet[k] = Weak(commit.images[k], commit.images[k])
           /\ ~commit.dirty

====
